---- MODULE Spec2Model ----
(***************************************************************************)
(* Model of the wgpu compositor state machine                              *)
(* (native/membrane_videocompositor_wgpu/src/compositor.rs, struct State). *)
(*                                                                         *)
(* GPU resources (textures, pipelines, buffers) carry no control state and *)
(* are left out; what is kept is the BTreeMap of input videos, each with   *)
(* its queue of frame timestamps and its position, and last_pts.           *)
(*                                                                         *)
(* InputVideo (mod videos) is not among the sources at hand: its           *)
(* operations new / upload_data / front_pts / draw are modelled from the   *)
(* written specification of the input stream buffer, restricted to the     *)
(* arguments the call sites in compositor.rs actually pass.                *)
(***************************************************************************)
EXTENDS Integers, Sequences, FiniteSets, TLC

\* ------------------------------------------------------------------ bounds
MaxId == 1
MaxPts == 1
MaxQueue == 1
MaxPeriod2 == 4

VideoIds == 0..MaxId
PtsValues == 0..MaxPts
\* VideoPosition values; two distinct placements are enough to tell a
\* stream that kept its placement from one that was re-created.
Positions == {"pos_a", "pos_b"}
\* frame_period is an f64; the model draws it in half units so that the
\* truncating cast of all_frames_ready has something to truncate.
\* FramePeriods2 holds 2 * frame_period, negative periods included.
FramePeriods2 == (-2)..MaxPeriod2

\* ------------------------------------------------------------ Option<T>
None == <<>>
Some(x) == <<x>>
IsSome(o) == o # <<>>
IsNone(o) == o = <<>>
Unwrap(o) == o[1]

\* --------------------------------------------------------------- results
Unit == <<"unit">>
Ok == <<"Ok">>
BadVideoIndex(idx) == <<"BadVideoIndex", idx>>
VideoIndexAlreadyTaken(idx) == <<"VideoIndexAlreadyTaken", idx>>
\* The u64 draw_into returns.
Returned(pts) == <<"pts", pts>>

VARIABLES
    input_videos,   \* State.input_videos: idx -> [frames, position]
    last_pts,       \* State.last_pts: Option<u64>
    lastOp,         \* history: the call just made and what it returned
    active,         \* history: ids added and not removed since
    hist,           \* which of the histories below are recorded in this run
    last_uploaded,  \* history: per stream, pts of the latest upload it took
    front_seen,     \* history: per id, the largest front timestamp observed
    prev_ret,       \* history: what the draw_into before the latest returned
    last_ret,       \* history: what the latest draw_into returned
    scene,          \* Scene.video_configs: the video ids the scene configures
    plugin,         \* a transformation plugin behind UntypedTransformation
    encoded,        \* CompositorError values and the terms they were encoded to
    render          \* the render pass of a tick, seen at one output pixel

\* What the operations of State neither read nor write.
aux == <<scene, plugin, encoded, render>>

vars == <<input_videos, last_pts, lastOp, active, hist, last_uploaded,
          front_seen, prev_ret, last_ret, scene, plugin, encoded, render>>

\* BTreeMap helpers
EmptyMap == [k \in {} |-> None]
Insert(m, k, v) == [x \in DOMAIN m \cup {k} |-> IF x = k THEN v ELSE m[x]]
Remove(m, k) == [x \in DOMAIN m \ {k} |-> m[x]]

Max(a, b) == IF a >= b THEN a ELSE b

\* ------------------------------------------------------------ InputVideo
\* InputVideo::new(.., position): a stream with no queued frame.
InputVideoNew(position) == [frames |-> <<>>, position |-> position]

\* InputVideo::upload_data(.., pts, last_pts): converts and appends (pts, texture).
upload_data(video, pts, last) == [video EXCEPT !.frames = Append(@, pts)]

\* InputVideo::front_pts(): timestamp of the oldest queued frame, if any.
front_pts(video) == IF video.frames = <<>> THEN None ELSE Some(Head(video.frames))

\* InputVideo::draw(queue, render_pass, output_caps): the call site supplies
\* no window, so the front frame, when there is one, is the frame of the
\* tick: it is drawn, dequeued and its timestamp returned.
draw_pts(video) == front_pts(video)
draw_video(video) ==
    IF video.frames = <<>> THEN video ELSE [video EXCEPT !.frames = Tail(@)]

\* ------------------------------------------------------ State operations
\* (pts as f64 + frame_period) as u64: truncation toward zero, saturating
\* at 0 for a negative sum. The timestamps of the model stay far below
\* 2^53, where the f64 sum is exact, and below u64::MAX, where the cast
\* saturates.
EndPts(start, period2) ==
    LET sum2 == 2 * start + period2
    IN  IF sum2 <= 0 THEN 0 ELSE sum2 \div 2

\* Mutant: an unset last_pts read as 0 (unwrap_or(0)), so the window is
\* applied on the first tick as well.
all_frames_ready_anchor0(period2) ==
    LET start_pts == IF IsSome(last_pts) THEN Unwrap(last_pts) ELSE 0
        end_pts == EndPts(start_pts, period2)
    IN  \A idx \in DOMAIN input_videos :
            LET v == input_videos[idx]
            IN  /\ IsSome(front_pts(v))
                /\ start_pts <= Unwrap(front_pts(v))
                /\ Unwrap(front_pts(v)) < end_pts

\* Mutant: a stream without a front frame is skipped instead of blocking.
all_frames_ready_skip_empty(period2) ==
    \A idx \in DOMAIN input_videos :
        LET v == input_videos[idx]
        IN  \/ IsNone(front_pts(v))
            \/ IsNone(last_pts)
            \/ /\ Unwrap(last_pts) <= Unwrap(front_pts(v))
               /\ Unwrap(front_pts(v)) < EndPts(Unwrap(last_pts), period2)

\* Mutant: the window is anchored at what the latest draw_into returned.
all_frames_ready_anchor_ret(period2) ==
    LET start_pts == last_ret
        end_pts == IF IsSome(start_pts) THEN Some(EndPts(Unwrap(start_pts), period2))
                   ELSE None
    IN  \A idx \in DOMAIN input_videos :
            LET v == input_videos[idx]
            IN  /\ IsSome(front_pts(v))
                /\ \/ IsNone(start_pts)
                   \/ /\ Unwrap(start_pts) <= Unwrap(front_pts(v))
                      /\ Unwrap(front_pts(v)) < Unwrap(end_pts)

all_frames_ready(period2) ==
    LET start_pts == last_pts
        end_pts == IF IsSome(start_pts) THEN Some(EndPts(Unwrap(start_pts), period2))
                   ELSE None
    IN  \A idx \in DOMAIN input_videos :
            LET v == input_videos[idx]
            IN  /\ IsSome(front_pts(v))
                /\ \/ IsNone(start_pts)
                   \/ /\ Unwrap(start_pts) <= Unwrap(front_pts(v))
                      /\ Unwrap(front_pts(v)) < Unwrap(end_pts)

\* The call just made: its name, its idx argument, the Result it returned
\* and, for all_frames_ready, the bool it returned.
OpRec(op, idx, res, ready) == [op |-> op, idx |-> idx, res |-> res, ready |-> ready]

\* History of front timestamps, recomputed from the map a call leaves behind.
FrontSeen(seen, videos) ==
    [id \in VideoIds |->
        IF id \in DOMAIN videos /\ IsSome(front_pts(videos[id]))
        THEN IF IsSome(seen[id])
             THEN Some(Max(Unwrap(seen[id]), Unwrap(front_pts(videos[id]))))
             ELSE front_pts(videos[id])
        ELSE seen[id]]

\* The histories are bookkeeping of the checks, not state of the program:
\* runs with hist = "off" leave them at their initial values, runs with
\* hist = "rets" record what draw_into returned, runs with hist =
\* "protocol" that and the latest upload of every stream, runs with hist =
\* "all" record all of them.
Record(uploaded, seen, prev, last) ==
    /\ IF hist \in {"all", "protocol"}
       THEN last_uploaded' = uploaded
       ELSE UNCHANGED last_uploaded
    /\ IF hist = "all"
       THEN front_seen' = seen
       ELSE UNCHANGED front_seen
    /\ IF hist \in {"all", "protocol", "rets"}
       THEN /\ prev_ret' = prev
            /\ last_ret' = last
       ELSE UNCHANGED <<prev_ret, last_ret>>

InitState ==
    /\ input_videos = EmptyMap
    /\ last_pts = None
    /\ lastOp = OpRec("new", 0, Unit, FALSE)
    /\ active = {}
    /\ last_uploaded = [id \in VideoIds |-> None]
    /\ front_seen = [id \in VideoIds |-> None]
    /\ prev_ret = None
    /\ last_ret = None

\* Nothing but State: no scene entry, no plugin, nothing encoded or rendered.
AuxIdle ==
    /\ scene = {}
    /\ plugin = <<>>
    /\ encoded = <<>>
    /\ render = <<>>

Init == InitState /\ hist = "off" /\ AuxIdle
InitHist == InitState /\ hist = "all" /\ AuxIdle

\* Mutant: an unknown idx is accepted, Ok(()) without an entry to upload to.
upload_texture_unchecked(idx, pts) ==
    /\ UNCHANGED aux
    /\ IF idx \notin DOMAIN input_videos
       THEN /\ lastOp' = OpRec("upload_texture", idx, Ok, FALSE)
            /\ UNCHANGED <<input_videos, last_pts, active, hist, last_uploaded,
                           front_seen, prev_ret, last_ret>>
       ELSE /\ Len(input_videos[idx].frames) < MaxQueue
            /\ input_videos' =
                   [input_videos EXCEPT ![idx] = upload_data(@, pts, last_pts)]
            /\ lastOp' = OpRec("upload_texture", idx, Ok, FALSE)
            /\ Record([last_uploaded EXCEPT ![idx] = Some(pts)],
                      FrontSeen(front_seen, input_videos'), prev_ret, last_ret)
            /\ UNCHANGED <<last_pts, active, hist>>

\* Mutant: the entry is looked up with entry(idx).or_insert_with(..), so an
\* unknown idx leaves a new, empty stream behind before the error is returned.
upload_texture_or_insert(idx, pts) ==
    /\ UNCHANGED aux
    /\ IF idx \notin DOMAIN input_videos
       THEN /\ input_videos' = Insert(input_videos, idx, InputVideoNew("pos_a"))
            /\ lastOp' = OpRec("upload_texture", idx, BadVideoIndex(idx), FALSE)
            /\ UNCHANGED <<last_pts, active, hist, last_uploaded,
                           front_seen, prev_ret, last_ret>>
       ELSE /\ Len(input_videos[idx].frames) < MaxQueue
            /\ input_videos' =
                   [input_videos EXCEPT ![idx] = upload_data(@, pts, last_pts)]
            /\ lastOp' = OpRec("upload_texture", idx, Ok, FALSE)
            /\ Record([last_uploaded EXCEPT ![idx] = Some(pts)],
                      FrontSeen(front_seen, input_videos'), prev_ret, last_ret)
            /\ UNCHANGED <<last_pts, active, hist>>

\* Mutant: the frame goes to the first stream of the map
\* (values_mut().next()) instead of the stream under idx.
UploadedVideos_first(videos, idx, pts) ==
    LET first == CHOOSE i \in DOMAIN videos : \A j \in DOMAIN videos : i <= j
    IN  [videos EXCEPT ![first] = upload_data(@, pts, last_pts)]

\* The map upload_texture leaves behind for a known idx: get_mut(&idx) and
\* upload_data on that one entry.
UploadedVideos(videos, idx, pts) ==
    [videos EXCEPT ![idx] = upload_data(@, pts, last_pts)]

\* upload_texture(idx, frame, pts): BadVideoIndex when idx is no key of the
\* map; otherwise upload_data on the entry (its result, if any, is dropped)
\* and Ok(()). The queue of the code is unbounded: the guard on MaxQueue
\* bounds the model only.
upload_texture(idx, pts) ==
    /\ UNCHANGED aux
    /\ IF idx \notin DOMAIN input_videos
       THEN /\ lastOp' = OpRec("upload_texture", idx, BadVideoIndex(idx), FALSE)
            /\ UNCHANGED <<input_videos, last_pts, active, hist, last_uploaded,
                           front_seen, prev_ret, last_ret>>
       ELSE /\ Len(input_videos[idx].frames) < MaxQueue
            /\ input_videos' = UploadedVideos(input_videos, idx, pts)
            /\ lastOp' = OpRec("upload_texture", idx, Ok, FALSE)
            /\ Record([last_uploaded EXCEPT ![idx] = Some(pts)],
                      FrontSeen(front_seen, input_videos'), prev_ret, last_ret)
            /\ UNCHANGED <<last_pts, active, hist>>

\* all_frames_ready(frame_period) as a call: a pure guard, &self.
CallAllFramesReady(period2) ==
    /\ lastOp' = OpRec("all_frames_ready", 0, Unit, all_frames_ready(period2))
    /\ UNCHANGED <<input_videos, last_pts, active, hist, last_uploaded,
                   front_seen, prev_ret, last_ret>>
    /\ UNCHANGED aux

\* Mutant: the timestamp of the video drawn last (pts = new_pts).
RECURSIVE DrawLoop_last(_, _)
DrawLoop_last(ids, pts) ==
    IF ids = {} THEN pts
    ELSE LET idx == CHOOSE i \in ids : \A j \in ids : i <= j
             new_pts == draw_pts(input_videos[idx])
         IN  DrawLoop_last(ids \ {idx},
                           IF IsSome(new_pts) THEN Unwrap(new_pts) ELSE pts)

\* The loop of draw_into over input_videos.values_mut(), in ascending key
\* order: pts = pts.max(new_pts) for every video that drew a frame.
RECURSIVE DrawLoop(_, _)
DrawLoop(ids, pts) ==
    IF ids = {} THEN pts
    ELSE LET idx == CHOOSE i \in ids : \A j \in ids : i <= j
             new_pts == draw_pts(input_videos[idx])
         IN  DrawLoop(ids \ {idx},
                      IF IsSome(new_pts) THEN Max(pts, Unwrap(new_pts)) ELSE pts)

\* Mutant: the fold starts from what the previous draw_into returned.
DrawIntoRet_from_last ==
    DrawLoop(DOMAIN input_videos, IF IsSome(last_ret) THEN Unwrap(last_ret) ELSE 0)

\* What draw_into returns: let mut pts = 0; the loop; pts.
DrawIntoRet == DrawLoop(DOMAIN input_videos, 0)

\* draw_into(output_buffer). No statement of it assigns self.last_pts.
draw_into ==
    /\ input_videos' = [idx \in DOMAIN input_videos |-> draw_video(input_videos[idx])]
    /\ lastOp' = OpRec("draw_into", 0, Returned(DrawIntoRet), FALSE)
    /\ Record(last_uploaded, FrontSeen(front_seen, input_videos'),
              last_ret, Some(DrawIntoRet))
    /\ UNCHANGED <<last_pts, active, hist>>
    /\ UNCHANGED aux

\* add_video(idx, position): BTreeMap::insert of a new InputVideo; an entry
\* already under idx is replaced; returns ().
add_video(idx, position) ==
    /\ input_videos' = Insert(input_videos, idx, InputVideoNew(position))
    /\ lastOp' = OpRec("add_video", idx, Unit, FALSE)
    /\ active' = active \cup {idx}
    /\ Record([last_uploaded EXCEPT ![idx] = None],
              FrontSeen(front_seen, input_videos'), prev_ret, last_ret)
    /\ UNCHANGED <<last_pts, hist>>
    /\ UNCHANGED aux

\* remove_video(idx): BTreeMap::remove; BadVideoIndex when there was no entry.
remove_video(idx) ==
    /\ UNCHANGED aux
    /\ IF idx \notin DOMAIN input_videos
       THEN /\ lastOp' = OpRec("remove_video", idx, BadVideoIndex(idx), FALSE)
            /\ active' = active \ {idx}
            /\ UNCHANGED <<input_videos, last_pts, hist, last_uploaded, front_seen,
                           prev_ret, last_ret>>
       ELSE /\ input_videos' = Remove(input_videos, idx)
            /\ lastOp' = OpRec("remove_video", idx, Ok, FALSE)
            /\ active' = active \ {idx}
            /\ Record([last_uploaded EXCEPT ![idx] = None], front_seen,
                      prev_ret, last_ret)
            /\ UNCHANGED <<last_pts, hist>>

Next ==
    \/ \E idx \in VideoIds, pts \in PtsValues : upload_texture(idx, pts)
    \/ \E period2 \in FramePeriods2 : CallAllFramesReady(period2)
    \/ draw_into
    \/ \E idx \in VideoIds, position \in Positions : add_video(idx, position)
    \/ \E idx \in VideoIds : remove_video(idx)

Spec == Init /\ [][Next]_vars
SpecHist == InitHist /\ [][Next]_vars

\* ------------------------------------------------------------------ claims
Frames(id) == input_videos[id].frames
Front(id) == front_pts(input_videos[id])
IsSorted(q) == \A i, j \in 1..Len(q) : i <= j => q[i] <= q[j]
Starved(id) == id \in DOMAIN input_videos /\ Frames(id) = <<>>

\* C1: upload_texture(id, ..) returns Ok for every id that is active (added
\* and not removed since); upload_texture(id, ..) and remove_video(id)
\* return BadVideoIndex(id) for every id that is not.
C1_ResultFollowsActive ==
    [][/\ lastOp'.op = "upload_texture" =>
            lastOp'.res = IF lastOp'.idx \in active THEN Ok
                          ELSE BadVideoIndex(lastOp'.idx)
       /\ (lastOp'.op = "remove_video" /\ lastOp'.idx \notin active) =>
            lastOp'.res = BadVideoIndex(lastOp'.idx)]_vars

\* An upload accepted on an active stream while the other id is unknown.
C1_Witness ==
    /\ lastOp.op = "upload_texture"
    /\ lastOp.res = Ok
    /\ lastOp.idx \in active
    /\ active # VideoIds

\* C2 (as claimed): add_video on an active id returns the
\* video-index-already-taken error and leaves the stream under that id as
\* it was: same queued frames, same front timestamp, same placement.
C2_ReAddRejected ==
    [][(lastOp'.op = "add_video" /\ lastOp'.idx \in active) =>
            /\ lastOp'.res = VideoIndexAlreadyTaken(lastOp'.idx)
            /\ input_videos'[lastOp'.idx] = input_videos[lastOp'.idx]]_vars

\* The window of the claims in exact arithmetic: start <= pts < start + period.
InWindow(pts, start, period2) == start <= pts /\ 2 * pts < 2 * start + period2

\* C3 (as claimed): once an output frame has been produced last_pts is set,
\* and all_frames_ready(frame_period) is true iff every active stream has a
\* front frame with last_pts <= pts < last_pts + frame_period.
C3_ReadyIffInWindow ==
    IsSome(last_ret) =>
        /\ IsSome(last_pts)
        /\ \A period2 \in FramePeriods2 :
              all_frames_ready(period2) <=>
                 \A id \in active :
                    /\ IsSome(Front(id))
                    /\ InWindow(Unwrap(Front(id)), Unwrap(last_pts), period2)

\* C4: while last_pts is unset, all_frames_ready(frame_period) is true
\* exactly when every active stream has at least one queued frame, for
\* every frame_period and whatever the front timestamps are.
C4_FirstTickNoWindow ==
    IsNone(last_pts) =>
        \A period2 \in FramePeriods2 :
            all_frames_ready(period2) <=> \A id \in active : Len(Frames(id)) >= 1

\* all_frames_ready just returned true with last_pts unset, for two streams
\* whose front timestamps differ.
C4_Witness ==
    /\ IsNone(last_pts)
    /\ lastOp.op = "all_frames_ready"
    /\ lastOp.ready
    /\ \E a, b \in active : Frames(a) # <<>> /\ Frames(b) # <<>> /\ Front(a) # Front(b)

\* C5 (as claimed): the timestamps successive draw_into calls return are
\* non-decreasing.
C5_ReturnedMonotone ==
    (IsSome(prev_ret) /\ IsSome(last_ret)) => Unwrap(prev_ret) <= Unwrap(last_ret)

\* C6 (as claimed): after a draw_into that returns t, last_pts = Some(t), and
\* last_pts never decreases.
C6_AnchorAdvances ==
    [][/\ lastOp'.op = "draw_into" => last_pts' = last_ret'
       /\ IsSome(last_pts) =>
            (IsSome(last_pts') /\ Unwrap(last_pts) <= Unwrap(last_pts'))]_vars

\* C7: while some active stream has an empty queue, all_frames_ready is
\* false for every frame_period, and no call other than an upload to that
\* stream or its removal makes it true.
C7_StarvationBlocks ==
    [][\A id \in VideoIds : Starved(id) =>
          /\ \A period2 \in FramePeriods2 : ~all_frames_ready(period2)
          /\ ~(lastOp'.idx = id /\ lastOp'.op \in {"upload_texture", "remove_video"})
                => \A period2 \in FramePeriods2 : ~all_frames_ready(period2)']_vars

\* A starved stream next to a stream that just took an upload.
C7_Witness ==
    \E id, other \in DOMAIN input_videos :
        /\ Frames(id) = <<>>
        /\ Frames(other) # <<>>
        /\ lastOp.op = "upload_texture"
        /\ lastOp.idx = other
        /\ lastOp.res = Ok

\* C8: when upload_texture or remove_video returns BadVideoIndex, the map of
\* streams with every queue and last_pts are as before the call, and so is
\* what all_frames_ready and draw_into would return next.
C8_UnknownIdNoEffect ==
    [][(/\ lastOp'.op \in {"upload_texture", "remove_video"}
        /\ lastOp'.res = BadVideoIndex(lastOp'.idx)) =>
            /\ input_videos' = input_videos
            /\ last_pts' = last_pts
            /\ \A period2 \in FramePeriods2 :
                  all_frames_ready(period2)' = all_frames_ready(period2)
            /\ DrawIntoRet' = DrawIntoRet]_vars

\* remove_video failed on an unknown id while another stream holds a frame.
C8_Witness ==
    /\ lastOp.op = "remove_video"
    /\ lastOp.res = BadVideoIndex(lastOp.idx)
    /\ \E id \in DOMAIN input_videos : Frames(id) # <<>>

\* C9 (as claimed): an upload_texture on an active stream with a pts below
\* the pts of the frame uploaded to that stream before is not answered Ok.
C9_RegressingUploadRejected ==
    [][~(/\ lastOp'.op = "upload_texture"
         /\ lastOp'.res = Ok
         /\ IsSome(last_uploaded[lastOp'.idx])
         /\ Unwrap(last_uploaded'[lastOp'.idx]) < Unwrap(last_uploaded[lastOp'.idx]))]_vars

\* C10 (as claimed): every queue is in non-decreasing pts order, and a
\* non-empty front timestamp of an id is never below one observed earlier
\* for that id.
C10_QueueSortedFrontMonotone ==
    \A id \in DOMAIN input_videos :
        /\ IsSorted(Frames(id))
        /\ (IsSome(Front(id)) /\ IsSome(front_seen[id])) =>
              Unwrap(front_seen[id]) <= Unwrap(Front(id))

\* The anchor of a tick as the claims describe it: last_pts, which is to be
\* the timestamp of the output frame produced last.
Anchor == IF IsSome(last_pts) THEN last_pts ELSE last_ret

\* C11 (as claimed): in a draw_into tick a stream is drawn and gives its
\* timestamp only if its front pts lies in the window [anchor, anchor +
\* frame_period) of some frame_period (any front frame on the first tick,
\* when no frame has been produced yet); a stream with an empty queue draws
\* nothing and the tick completes.
C11_DrawnOnlyInWindow ==
    [][lastOp'.op = "draw_into" =>
          \A id \in DOMAIN input_videos :
             /\ id \in DOMAIN input_videos'
             /\ Frames(id) = <<>> => input_videos'[id] = input_videos[id]
             /\ input_videos'[id] # input_videos[id] =>
                   \/ IsNone(Anchor)
                   \/ \E period2 \in FramePeriods2 :
                         InWindow(Unwrap(Front(id)), Unwrap(Anchor), period2)]_vars

\* C12: upload_texture(a, ..) leaves the entry (queue, front timestamp) of
\* every other stream as it was, and two uploads to distinct active ids
\* leave the same map behind in either order.
C12_UploadsIndependent ==
    [][(lastOp'.op = "upload_texture" /\ lastOp'.res = Ok) =>
          LET a == lastOp'.idx
          IN  /\ DOMAIN input_videos' = DOMAIN input_videos
              /\ \A b \in DOMAIN input_videos \ {a} :
                    input_videos'[b] = input_videos[b]
              /\ last_pts' = last_pts
              /\ \E p \in PtsValues :
                    /\ input_videos' = UploadedVideos(input_videos, a, p)
                    /\ \A b \in DOMAIN input_videos \ {a} : \A q \in PtsValues :
                          UploadedVideos(input_videos', b, q)
                            = UploadedVideos(UploadedVideos(input_videos, b, q), a, p)]_vars

\* An upload just went to one stream while the other stream holds a frame.
C12_Witness ==
    /\ lastOp.op = "upload_texture"
    /\ lastOp.res = Ok
    /\ \E b \in active : b # lastOp.idx /\ Frames(b) # <<>> /\ Frames(lastOp.idx) # <<>>

\* ------------------------------------------------------------------ Scene
DifferentVideoIndexes == <<"DifferentVideoIndexes">>

\* Scene::empty(): no video_configs entry.
SceneEmpty == {}

\* The caller's side of Scene: video_configs is a pub HashMap, entries come
\* and go as streams are configured. Only the key set is kept.
scene_insert(id) ==
    /\ scene' = scene \cup {id}
    /\ lastOp' = OpRec("scene_insert", id, Unit, FALSE)
    /\ UNCHANGED <<input_videos, last_pts, active, hist, last_uploaded,
                   front_seen, prev_ret, last_ret, plugin, encoded, render>>

scene_remove(id) ==
    /\ scene' = scene \ {id}
    /\ lastOp' = OpRec("scene_remove", id, Unit, FALSE)
    /\ UNCHANGED <<input_videos, last_pts, active, hist, last_uploaded,
                   front_seen, prev_ret, last_ret, plugin, encoded, render>>

\* Mutant: only the numbers of ids are compared.
check_video_indexes_len ==
    /\ lastOp' = OpRec("check_video_indexes", 0,
                       IF Cardinality(scene) = Cardinality(DOMAIN input_videos)
                       THEN Ok ELSE DifferentVideoIndexes, FALSE)
    /\ UNCHANGED <<input_videos, last_pts, active, hist, last_uploaded,
                   front_seen, prev_ret, last_ret, scene, plugin, encoded, render>>

\* The engine operation that compares the ids of the Scene with the ids of
\* the live streams before it goes on: DifferentVideoIndexes when the two
\* sets differ, and nothing is changed.
check_video_indexes ==
    /\ lastOp' = OpRec("check_video_indexes", 0,
                       IF scene = DOMAIN input_videos
                       THEN Ok ELSE DifferentVideoIndexes, FALSE)
    /\ UNCHANGED <<input_videos, last_pts, active, hist, last_uploaded,
                   front_seen, prev_ret, last_ret, scene, plugin, encoded, render>>

InitScene ==
    /\ InitState
    /\ hist = "off"
    /\ scene = SceneEmpty
    /\ plugin = <<>>
    /\ encoded = <<>>
    /\ render = <<>>

NextScene ==
    \/ \E idx \in VideoIds, position \in Positions : add_video(idx, position)
    \/ \E idx \in VideoIds : remove_video(idx)
    \/ \E id \in VideoIds : scene_insert(id)
    \/ \E id \in VideoIds : scene_remove(id)
    \/ check_video_indexes

SpecScene == InitScene /\ [][NextScene]_vars

MaxCalls == 2

\* PluginRegistryKey values.
PluginKeys == {"key_a", "key_b", "key_c"}
\* The dynamic type of a &dyn Any argument ("Arg" is T::Arg of the
\* transformation) and what it holds.
ArgTypes == {"Arg", "Other"}
ArgValues == {"x", "y"}
Args == [type : ArgTypes, val : ArgValues]

Panic == <<"panic">>
Key(k) == <<"key", k>>

\* A transformation T: the key of CustomProcessor::registry_key(), the key
\* of registry_key_dyn(&self), the arguments Transformation::do_stuff was
\* invoked with, the argument of the latest untyped call, and whether a
\* panic has unwound the caller.
PluginNew(static_key, dyn_key) ==
    [static_key |-> static_key, dyn_key |-> dyn_key, typed_calls |-> <<>>,
     arg |-> None, panicked |-> FALSE]

\* <T as UntypedTransformation>::registry_key(&self): assert_eq! of the two
\* keys, then the static key.
registry_key ==
    /\ ~plugin.panicked
    /\ IF plugin.static_key = plugin.dyn_key
       THEN /\ lastOp' = OpRec("registry_key", 0, Key(plugin.static_key), FALSE)
            /\ plugin' = plugin
       ELSE /\ lastOp' = OpRec("registry_key", 0, Panic, FALSE)
            /\ plugin' = [plugin EXCEPT !.panicked = TRUE]
    /\ UNCHANGED <<input_videos, last_pts, active, hist, last_uploaded,
                   front_seen, prev_ret, last_ret, scene, encoded, render>>

\* Mutant: a failed downcast returns without a panic (if let Some(arg) = ..).
untyped_do_stuff_skip(arg) ==
    /\ ~plugin.panicked
    /\ Len(plugin.typed_calls) < MaxCalls
    /\ lastOp' = OpRec("do_stuff", 0, Unit, FALSE)
    /\ plugin' = IF arg.type = "Arg"
                 THEN [plugin EXCEPT !.typed_calls = Append(@, arg), !.arg = Some(arg)]
                 ELSE [plugin EXCEPT !.arg = Some(arg)]
    /\ UNCHANGED <<input_videos, last_pts, active, hist, last_uploaded,
                   front_seen, prev_ret, last_ret, scene, encoded, render>>

\* <T as UntypedTransformation>::do_stuff(&self, arg: &dyn Any):
\* arg.downcast_ref() to T::Arg, a panic when it fails, else the typed
\* do_stuff with the reference. The bound on typed_calls bounds the model.
untyped_do_stuff(arg) ==
    /\ ~plugin.panicked
    /\ Len(plugin.typed_calls) < MaxCalls
    /\ IF arg.type = "Arg"
       THEN /\ lastOp' = OpRec("do_stuff", 0, Unit, FALSE)
            /\ plugin' = [plugin EXCEPT !.typed_calls = Append(@, arg),
                                        !.arg = Some(arg)]
       ELSE /\ lastOp' = OpRec("do_stuff", 0, Panic, FALSE)
            /\ plugin' = [plugin EXCEPT !.arg = Some(arg), !.panicked = TRUE]
    /\ UNCHANGED <<input_videos, last_pts, active, hist, last_uploaded,
                   front_seen, prev_ret, last_ret, scene, encoded, render>>

\* Any implementation of Transformation may stand behind the blanket impl:
\* its two keys are free.
InitPlugin ==
    /\ InitState
    /\ hist = "off"
    /\ scene = {}
    /\ encoded = <<>>
    /\ render = <<>>
    /\ \E s, d \in PluginKeys : plugin = PluginNew(s, d)

NextPlugin ==
    \/ registry_key
    \/ \E arg \in Args : untyped_do_stuff(arg)

SpecPlugin == InitPlugin /\ [][NextPlugin]_vars

\* C14 (as claimed): the agreement of the static and the dynamic key is not
\* checked by an assertion on a request for the key: no call of
\* registry_key aborts, a mismatch having been rejected as an error before.
C14_NoAssertOnRequest ==
    lastOp.op = "registry_key" => (lastOp.res # Panic /\ ~plugin.panicked)

\* C18: the untyped do_stuff(arg) invokes the typed do_stuff exactly once,
\* with arg, when arg is of type T::Arg, and panics without invoking it
\* when arg is of another type.
C18_DowncastOrPanic ==
    [][lastOp'.op = "do_stuff" =>
          /\ IsSome(plugin'.arg)
          /\ LET arg == Unwrap(plugin'.arg)
             IN  IF arg.type = "Arg"
                 THEN /\ plugin'.typed_calls = Append(plugin.typed_calls, arg)
                      /\ ~plugin'.panicked
                      /\ lastOp'.res = Unit
                 ELSE /\ plugin'.typed_calls = plugin.typed_calls
                      /\ plugin'.panicked
                      /\ lastOp'.res = Panic]_vars

\* A second typed invocation went through, with another argument than the
\* first.
C18_Witness ==
    /\ lastOp.op = "do_stuff"
    /\ lastOp.res = Unit
    /\ Len(plugin.typed_calls) = 2
    /\ plugin.typed_calls[1] # plugin.typed_calls[2]

\* ------------------------------------------------------ CompositorError
MaxDim == 2

\* The u32 width and height of BadVideoResolution.
Dims == 1..MaxDim

NotImplemented == <<"NotImplemented">>
BadFramerate == <<"BadFramerate">>
UnsupportedPixelFormat == <<"UnsupportedPixelFormat">>
BadVideoResolution(width, height) == <<"BadVideoResolution", width, height>>

\* enum CompositorError
CompositorErrors ==
    {NotImplemented, BadFramerate, UnsupportedPixelFormat, DifferentVideoIndexes}
    \cup {BadVideoIndex(idx) : idx \in VideoIds}
    \cup {VideoIndexAlreadyTaken(idx) : idx \in VideoIds}
    \cup {BadVideoResolution(w, h) : w \in Dims, h \in Dims}

\* Erlang terms: a bare atom, and a tuple of an atom and an integer. Both
\* are written as an atom with the elements that follow it in the tuple.
Atom(name) == [atom |-> name, elems |-> <<>>]
Tagged(name, x) == [atom |-> name, elems |-> <<x>>]

\* <CompositorError as rustler::Encoder>::encode
Encode(err) ==
    CASE err[1] = "NotImplemented" -> Atom("function_not_implemented")
      [] err[1] = "BadVideoIndex" -> Tagged("bad_video_index", err[2])
      [] err[1] = "BadFramerate" -> Atom("bad_framerate")
      [] err[1] = "UnsupportedPixelFormat" -> Atom("unsupported_pixel_format")
      [] err[1] = "BadVideoResolution" -> Atom("bad_video_resolution")
      [] err[1] = "VideoIndexAlreadyTaken" -> Tagged("video_index_already_taken", err[2])
      [] err[1] = "DifferentVideoIndexes" -> Atom("different_video_indexes")

\* A call across the boundary fails with err: the term handed over. The
\* two latest errors and their terms are kept.
encode(err) ==
    /\ lastOp' = OpRec("encode", 0, Unit, FALSE)
    /\ encoded' = LET e == [err |-> err, term |-> Encode(err)]
                  IN  IF encoded = <<>> THEN <<e>>
                      ELSE <<encoded[Len(encoded)], e>>
    /\ UNCHANGED <<input_videos, last_pts, active, hist, last_uploaded,
                   front_seen, prev_ret, last_ret, scene, plugin, render>>

InitEncode == InitState /\ hist = "off" /\ AuxIdle

NextEncode == \E err \in CompositorErrors : encode(err)

SpecEncode == InitEncode /\ [][NextEncode]_vars

\* The payload of an error: its fields after the variant name.
Payload(err) == SubSeq(err, 2, Len(err))

\* C15 (as claimed): every error is surfaced as a term that carries the
\* payload of the error, and two distinct errors are surfaced as two
\* distinct terms.
C15_EncodeCarriesPayload ==
    /\ \A i \in DOMAIN encoded : encoded[i].term.elems = Payload(encoded[i].err)
    /\ \A i, j \in DOMAIN encoded :
          encoded[i].err # encoded[j].err => encoded[i].term # encoded[j].term

\* ------------------------------------------------- what draw_into returns
\* Ticks alone, with what draw_into returned recorded: streams are added,
\* frames uploaded and output frames drawn.
InitTicks == InitState /\ hist = "rets" /\ AuxIdle

NextTicks ==
    \/ \E idx \in VideoIds, pts \in PtsValues : upload_texture(idx, pts)
    \/ draw_into
    \/ \E idx \in VideoIds : add_video(idx, "pos_a")

SpecTicks == InitTicks /\ [][NextTicks]_vars

\* The streams a draw_into step drew a frame of.
Drawn == {id \in DOMAIN input_videos : input_videos'[id] # input_videos[id]}

\* C16: when some stream draws a frame, draw_into returns the largest of
\* the timestamps of the frames drawn in the tick.
C16_ReturnsMaxDrawn ==
    [][(lastOp'.op = "draw_into" /\ Drawn # {}) =>
          \E id \in Drawn :
             /\ lastOp'.res = Returned(Unwrap(Front(id)))
             /\ \A other \in Drawn : Unwrap(Front(other)) <= Unwrap(Front(id))]_vars

\* Two streams are active and the tick that emptied their queues returned
\* the timestamp 1.
C16_Witness ==
    /\ lastOp.op = "draw_into"
    /\ lastOp.res = Returned(1)
    /\ Cardinality(DOMAIN input_videos) >= 2
    /\ \A id \in DOMAIN input_videos : Starved(id)

\* C19: a draw_into in which no stream draws a frame (no active stream, or
\* none with a queued frame) returns 0, whatever was returned before.
C19_NothingDrawnReturnsZero ==
    [][(lastOp'.op = "draw_into" /\ \A id \in DOMAIN input_videos : Starved(id)) =>
          /\ lastOp'.res = Returned(0)
          /\ last_ret' = Some(0)
          /\ prev_ret' = last_ret
          /\ input_videos' = input_videos]_vars

\* A tick with active streams returned 0 after a tick that returned 1.
C19_Witness ==
    /\ lastOp.op = "draw_into"
    /\ lastOp.res = Returned(0)
    /\ last_ret = Some(0)
    /\ prev_ret = Some(1)
    /\ DOMAIN input_videos # {}

\* ------------------------------------------------------------ depth pass
MaxZ2 == 3
\* LoadOp::Clear(1.0) of the depth attachment, in halves.
DepthClear2 == 2

\* z of a placement, in halves: 0.0, 0.5, 1.0, ...
ZValues2 == 0..MaxZ2

\* The depth a fragment of a quad placed at z is tested and written with.
FragDepth2(z2) == z2

\* Mutant: CompareFunction::Always, every fragment passes.
depth_compare_always(frag, stored) == TRUE

\* depth_compare: CompareFunction::Less.
depth_compare(frag, stored) == frag < stored

\* The render target at a pixel every drawn quad covers: the colour
\* attachment (None is Color::BLACK, Some(id) the frame of stream id) and
\* the depth attachment, both as cleared by the load operations.
Cleared == [color |-> None, depth |-> DepthClear2]

\* The draws of the render pass over values_mut(), in ascending key order:
\* a fragment that passes the depth test replaces the colour and, with
\* depth_write_enabled, the stored depth.
RECURSIVE DepthLoop(_, _, _)
DepthLoop(ids, zs, px) ==
    IF ids = {} THEN px
    ELSE LET idx == CHOOSE i \in ids : \A j \in ids : i <= j
             frag == FragDepth2(zs[idx])
         IN  DepthLoop(ids \ {idx}, zs,
                       IF depth_compare(frag, px.depth)
                       THEN [color |-> Some(idx), depth |-> frag]
                       ELSE px)

\* A stream with a frame to draw in the coming tick is placed at z.
place_video(idx, z2) ==
    /\ render' = [render EXCEPT !.zs = Insert(@, idx, z2)]
    /\ lastOp' = OpRec("place_video", idx, Unit, FALSE)
    /\ UNCHANGED <<input_videos, last_pts, active, hist, last_uploaded,
                   front_seen, prev_ret, last_ret, scene, plugin, encoded>>

\* The stream leaves.
unplace_video(idx) ==
    /\ idx \in DOMAIN render.zs
    /\ render' = [render EXCEPT !.zs = Remove(@, idx)]
    /\ lastOp' = OpRec("unplace_video", idx, Unit, FALSE)
    /\ UNCHANGED <<input_videos, last_pts, active, hist, last_uploaded,
                   front_seen, prev_ret, last_ret, scene, plugin, encoded>>

\* The render pass of draw_into: both attachments cleared, then the draws.
render_pass ==
    /\ render' = [render EXCEPT !.px = DepthLoop(DOMAIN render.zs, render.zs, Cleared)]
    /\ lastOp' = OpRec("render_pass", 0, Unit, FALSE)
    /\ UNCHANGED <<input_videos, last_pts, active, hist, last_uploaded,
                   front_seen, prev_ret, last_ret, scene, plugin, encoded>>

InitDepth ==
    /\ InitState
    /\ hist = "off"
    /\ scene = {}
    /\ plugin = <<>>
    /\ encoded = <<>>
    /\ render = [zs |-> EmptyMap, px |-> Cleared]

NextDepth ==
    \/ \E idx \in VideoIds, z2 \in ZValues2 : place_video(idx, z2)
    \/ \E idx \in VideoIds : unplace_video(idx)
    \/ render_pass

SpecDepth == InitDepth /\ [][NextDepth]_vars

\* C17: after the render pass of a tick, with the depth buffer started at
\* 1.0 and the streams drawn in ascending id order, the pixel shows a
\* stream only if its z is below 1.0 and no drawn stream has a smaller z,
\* whatever the ids; it shows a stream whenever one has z below 1.0.
C17_SmallerZInFront ==
    lastOp.op = "render_pass" =>
        LET zs == render.zs
            px == render.px
        IN  /\ IsSome(px.color) =>
                 LET shown == Unwrap(px.color)
                 IN  /\ shown \in DOMAIN zs
                     /\ zs[shown] < DepthClear2
                     /\ px.depth = zs[shown]
                     /\ \A other \in DOMAIN zs : zs[shown] <= zs[other]
            /\ IsNone(px.color) =>
                 /\ px.depth = DepthClear2
                 /\ \A id \in DOMAIN zs : zs[id] >= DepthClear2

\* The stream with the larger id is shown over a stream with a smaller id
\* and a larger z.
C17_Witness ==
    /\ lastOp.op = "render_pass"
    /\ \E a, b \in DOMAIN render.zs :
          /\ a < b
          /\ render.zs[b] < render.zs[a]
          /\ render.zs[a] < DepthClear2
          /\ render.px.color = Some(b)

\* ------------------------------------------------------- caller protocol
\* The intended protocol of the caller: a stream is added under an id that
\* is free, every active stream uploads frames with non-decreasing pts,
\* and draw_into is called only when all_frames_ready(frame_period) holds.
ProtocolAdd(idx) ==
    /\ idx \notin DOMAIN input_videos
    /\ add_video(idx, "pos_a")

ProtocolUpload(idx) ==
    /\ idx \in DOMAIN input_videos
    /\ \E pts \in PtsValues :
          /\ IF IsNone(last_uploaded[idx]) THEN TRUE
             ELSE Unwrap(last_uploaded[idx]) <= pts
          /\ upload_texture(idx, pts)

ProtocolTick ==
    /\ TRUE \in {all_frames_ready(period2) : period2 \in FramePeriods2}
    /\ draw_into

InitProtocol == InitState /\ hist = "protocol" /\ AuxIdle

NextProtocol ==
    \/ \E idx \in VideoIds : ProtocolAdd(idx)
    \/ \E idx \in VideoIds : ProtocolUpload(idx)
    \/ ProtocolTick

\* Every active stream keeps uploading, and the caller ticks when it may.
FairProtocol ==
    /\ \A idx \in VideoIds : WF_vars(ProtocolUpload(idx))
    /\ WF_vars(ProtocolTick)

SpecProtocol == InitProtocol /\ [][NextProtocol]_vars /\ FairProtocol

AllQueued ==
    /\ DOMAIN input_videos # {}
    /\ \A id \in DOMAIN input_videos : ~Starved(id)
ReadyForSomePeriod == \E period2 \in FramePeriods2 : all_frames_ready(period2)

\* A stream whose front frame lies before the timestamp of the latest
\* output frame, or at or after that timestamp plus the frame period.
OutOfWindow(id, period2) ==
    /\ IsSome(Anchor)
    /\ IsSome(Front(id))
    /\ ~InWindow(Unwrap(Front(id)), Unwrap(Anchor), period2)

====
